---- MODULE Spec2Model ----
(***************************************************************************)
(* A model of mceditlib/block_copy.py: copyBlocksIter, the generator that  *)
(* copies blocks, biomes, entities and tile entities from a selection of   *)
(* one dimension to another, and sourceMaskFunc, its block type filter.    *)
(*                                                                         *)
(* Positions are <<x, y, z>>.  Array indices are <<iy, iz, ix>>, the axis  *)
(* order of a section's Blocks array (the slices of lines 134-145 are      *)
(* given in the order y, z, x).  A chunk position is <<cx, cz>>, a section *)
(* position <<cx, cy, cz>>.                                                *)
(***************************************************************************)
EXTENDS Integers, Sequences, FiniteSets, TLC

VARIABLES
    call,           \* the arguments of copyBlocksIter other than the two dimensions
    sourceDim,      \* the source dimension (never written)
    destDim,        \* the destination dimension
    pc,             \* where the generator stands
    frame,          \* the generator's local variables
    relightCalls,   \* the calls made to relight.updateLightsByCoord, in order
    yields,         \* the values handed to the consumer, in order
    hist            \* history of the run, for stating the properties

vars == <<call, sourceDim, destDim, pc, frame, relightCalls, yields, hist>>

(***************************************************************************)
(* Bounds of the model.                                                    *)
(***************************************************************************)
\* Edge of a section and of a chunk, in blocks (16 in the program: the
\* shifts "<< 4" of lines 135-144).
SectionSize == 2
\* blocktypes.id_limit: block ids are 0 .. IdLimit - 1.
IdLimit == 4

NoneVal == "None"

Min(a, b) == IF a < b THEN a ELSE b
Max(a, b) == IF a > b THEN a ELSE b

\* n >> 4 and n << 4, for the model's section edge.
ShiftDown(n) == n \div SectionSize
ShiftUp(n) == n * SectionSize

VecAdd(p, q) == <<p[1] + q[1], p[2] + q[2], p[3] + q[3]>>
VecSub(p, q) == <<p[1] - q[1], p[2] - q[2], p[3] - q[3]>>

(***************************************************************************)
(* mceditlib.selection: BoundingBox, SectionBox and the selection.         *)
(***************************************************************************)
BoundingBox(origin, size) == [origin |-> origin, size |-> size]

\* Axis a is 1 (x), 2 (y) or 3 (z).
BoxMin(box, a) == box.origin[a]
BoxMax(box, a) == box.origin[a] + box.size[a]
BoxVolume(box) == box.size[1] * box.size[2] * box.size[3]
BoxMinC(box, a) == ShiftDown(BoxMin(box, a))
BoxMaxC(box, a) == ShiftDown(BoxMax(box, a) - 1) + 1

InBox(box, p) ==
    \A a \in 1..3 : BoxMin(box, a) <= p[a] /\ p[a] < BoxMax(box, a)

\* box.chunkCount
ChunkCount(box) ==
    (BoxMaxC(box, 1) - BoxMinC(box, 1)) * (BoxMaxC(box, 3) - BoxMinC(box, 3))

\* box.chunkPositions(): cx outermost, cz innermost.
ChunkPositions(box) ==
    LET nz == BoxMaxC(box, 3) - BoxMinC(box, 3)
    IN  [k \in 1..ChunkCount(box) |->
            <<BoxMinC(box, 1) + ((k - 1) \div nz),
              BoxMinC(box, 3) + ((k - 1) % nz)>>]

\* box.sectionPositions(cx, cz)
SectionPositions(box) ==
    [k \in 1..(BoxMaxC(box, 2) - BoxMinC(box, 2)) |-> BoxMinC(box, 2) + k - 1]

SectionBox(cx, cy, cz) ==
    BoundingBox(<<ShiftUp(cx), ShiftUp(cy), ShiftUp(cz)>>,
                <<SectionSize, SectionSize, SectionSize>>)

\* a.intersect(b)
Intersect(a, b) ==
    LET lo == [k \in 1..3 |-> Max(BoxMin(a, k), BoxMin(b, k))]
        hi == [k \in 1..3 |-> Min(BoxMax(a, k), BoxMax(b, k))]
    IN  IF \E k \in 1..3 : hi[k] <= lo[k]
        THEN BoundingBox(b.origin, <<0, 0, 0>>)
        ELSE BoundingBox(lo, VecSub(hi, lo))

\* The shapes a selection may have inside its bounding box.
InShape(shape, p) ==
    CASE shape = "box" -> TRUE
      [] shape = "sparse" -> (p[1] + p[2] + p[3]) % 2 = 0
      [] shape = "slab" -> p[2] # 0 \/ p[1] % 2 = 0

\* p in selection: the selection's own shape, not its bounding box.
SelectionContains(sel, p) == InBox(sel.box, p) /\ InShape(sel.shape, p)

\* The voxels of section <<cx, cy, cz>>, as positions.
SectionVoxels(cx, cy, cz) ==
    {<<ShiftUp(cx) + ix, ShiftUp(cy) + iy, ShiftUp(cz) + iz>> :
        ix \in 0..(SectionSize - 1), iy \in 0..(SectionSize - 1),
        iz \in 0..(SectionSize - 1)}

\* The position of array index idx of section <<cx, cy, cz>>.
VoxelAt(cx, cy, cz, idx) ==
    <<ShiftUp(cx) + idx[3], ShiftUp(cy) + idx[1], ShiftUp(cz) + idx[2]>>

SectionIndices ==
    (0..(SectionSize - 1)) \X (0..(SectionSize - 1)) \X (0..(SectionSize - 1))

\* selection.section_mask(cx, cy, cz) is None where the selection does not
\* reach the section,
SectionMaskIsNone(sel, cx, cy, cz) ==
    BoxVolume(Intersect(SectionBox(cx, cy, cz), sel.box)) = 0

\* and else the array of the selected voxels: the indices where it is true.
SectionMask(sel, cx, cy, cz) ==
    {idx \in SectionIndices : SelectionContains(sel, VoxelAt(cx, cy, cz, idx))}

(***************************************************************************)
(* mceditlib.blocktypes: the registries and the converter between them.    *)
(***************************************************************************)
\* destDim.blocktypes.brightness and .opacity, per block id.
Brightness(id) == IF id = 2 THEN 15 ELSE 0
Opacity(id) == IF id = 0 THEN 0 ELSE 15

\* blocktypes.blocktypeConverter(destTypes, sourceTypes), applied to one
\* (id, data) pair: the identity between equal registries; otherwise an id
\* with an equivalent maps to it and the last id, which has none, falls back
\* to the default <<1, 0>>.
ConvertBlocks(destTypes, sourceTypes, id, data) ==
    IF destTypes = sourceTypes THEN <<id, data>>
    ELSE IF id = 0 THEN <<0, data>>
    ELSE IF id = IdLimit - 1 THEN <<1, 0>>
    ELSE <<id + 1, data>>

(***************************************************************************)
(* The contents of the two dimensions before the copy.                     *)
(***************************************************************************)
\* sourceSection.Blocks and .Data at position p.
SourceBlockAt(p) == (p[1] + 2 * p[2] + 3 * p[3]) % IdLimit
SourceDataAt(p) == (p[1] + p[2] + 2 * p[3]) % 4

\* sourceChunk.Biomes at column <<x, z>>.
SourceBiomeAt(x, z) == 1 + ((x + 2 * z) % 3)

\* The destination's blocks, data and biomes before the copy.  A chunk or a
\* section made during the copy is all air: block 0, data 0, biome 0.
DestBlockBefore(p) == (2 * p[1] + p[2] + p[3]) % IdLimit
DestDataBefore(p) == (p[1] + 2 * p[2] + p[3]) % 4
DestBiomeBefore(x, z) == 0

\* The entities and tile entities of the source, by position.
SourceEntityPositions == << <<0, 0, 0>>, <<1, 0, 0>>, <<SectionSize, 1, 0>> >>
SourceTileEntityPositions == << <<0, 1, 0>>, <<SectionSize + 1, 0, 0>> >>

ChunkOf(p) == <<ShiftDown(p[1]), ShiftDown(p[3])>>
SectionOf(p) == <<ShiftDown(p[1]), ShiftDown(p[2]), ShiftDown(p[3])>>

(***************************************************************************)
(* sourceMaskFunc (lines 17-30).                                           *)
(***************************************************************************)
\* typemask[blocksToCopy] = 1 (line 20) raises IndexError for an id that is
\* not an index of an array of id_limit entries.
TypeMaskRaises(blocksToCopy) ==
    /\ blocksToCopy.given
    /\ \E id \in blocksToCopy.ids : id >= IdLimit \/ id < 0 - IdLimit

\* The ids whose entry of typemask is set (a negative index counts from the
\* end of the array).
TypeMask(blocksToCopy) ==
    {IF id < 0 THEN id + IdLimit ELSE id : id \in blocksToCopy.ids}

\* makeSourceMask(sourceSection.Blocks) for the section at <<cx, cy, cz>>:
\* the indices where the type mask is true.  Without a list it is
\* numpy.ones((1,)), which "&" broadcasts over the whole selection mask.
MakeSourceMask(blocksToCopy, cx, cy, cz) ==
    IF blocksToCopy.given
    THEN {idx \in SectionIndices :
            SourceBlockAt(VoxelAt(cx, cy, cz, idx)) \in TypeMask(blocksToCopy)}
    ELSE SectionIndices

(***************************************************************************)
(* The calls and the dimensions the model starts from.                     *)
(***************************************************************************)
Selections ==
    { [box |-> BoundingBox(<<0, 0, 0>>, <<2 * SectionSize, SectionSize, SectionSize>>),
       shape |-> "box"],
      [box |-> BoundingBox(<<1, 0, 0>>, <<SectionSize, SectionSize + 1, SectionSize>>),
       shape |-> "box"],
      [box |-> BoundingBox(<<0, 0, 0>>, <<2 * SectionSize, 2 * SectionSize, SectionSize>>),
       shape |-> "sparse"] }

Offsets ==
    { <<0, 0, 0>>, <<1, 0, 0>>, <<0, 1, 0>>, <<SectionSize, 0, 0>>, <<0 - 1, 1, 1>> }

\* blocksToCopy: None (given is FALSE) or a list of block ids.
NoList == [given |-> FALSE, ids |-> {}]
AllowLists ==
    { NoList, [given |-> TRUE, ids |-> {1, 2}], [given |-> TRUE, ids |-> {0}],
      [given |-> TRUE, ids |-> {1, IdLimit}] }

\* updateLights, with biomes and entities: "no" is False, "yes" is True.
Plain == [updateLights |-> "no", biomes |-> FALSE, entities |-> FALSE]
Modes ==
    { [updateLights |-> "yes", biomes |-> TRUE, entities |-> TRUE],
      [updateLights |-> "all", biomes |-> TRUE, entities |-> FALSE],
      [updateLights |-> "all", biomes |-> FALSE, entities |-> TRUE] }

\* The source dimension: its chunks, and the sections each chunk holds.
FullSource ==
    [chunks |-> {<<0, 0>>, <<1, 0>>},
     sections |-> {<<0, 0, 0>>, <<0, 1, 0>>, <<1, 0, 0>>, <<1, 1, 0>>},
     hasBiomes |-> TRUE]
PartSource ==
    [chunks |-> {<<1, 0>>}, sections |-> {<<1, 0, 0>>}, hasBiomes |-> FALSE]
HoledSource ==
    [chunks |-> {<<0, 0>>, <<1, 0>>}, sections |-> {<<0, 1, 0>>, <<1, 0, 0>>},
     hasBiomes |-> TRUE]
NoSource == [chunks |-> {}, sections |-> {}, hasBiomes |-> TRUE]

\* What the destination holds before the copy, with the create flag.
DestCases ==
    { [layout |-> "none", create |-> FALSE], [layout |-> "none", create |-> TRUE],
      [layout |-> "some", create |-> FALSE], [layout |-> "some", create |-> TRUE],
      [layout |-> "all", create |-> FALSE] }

\* The calls the model starts from: every placement of the copy among the
\* chunks and sections present without lighting, biomes and entities, and
\* the three of them over the placements that write blocks.
Cases ==
    [sel : Selections, off : Offsets, allow : AllowLists, mode : {Plain},
     src : {FullSource, PartSource, NoSource}, types : {"A", "B"}, dest : DestCases]
    \cup
    [sel : Selections, off : Offsets, allow : {NoList, [given |-> TRUE, ids |-> {1, 2}]},
     mode : Modes, src : {FullSource, HoledSource}, types : {"A", "B"},
     dest : {[layout |-> "some", create |-> TRUE], [layout |-> "all", create |-> FALSE]}]

\* The section positions a source chunk enumerates (sectionPositions()):
\* getSection gives None for one the chunk does not hold.
SourceSectionYs == <<0, 1>>

\* The part of the destination the model keeps: the region of the selection
\* and of its translation.
DestRegion(sel, point) ==
    LET lo == [k \in 1..3 |-> Min(sel.box.origin[k], point[k])]
        hi == [k \in 1..3 |-> Max(sel.box.origin[k], point[k]) + sel.box.size[k]]
    IN  BoundingBox(lo, VecSub(hi, lo))

RegionChunks(box) ==
    {<<cx, cz>> : cx \in BoxMinC(box, 1)..(BoxMaxC(box, 1) - 1),
                  cz \in BoxMinC(box, 3)..(BoxMaxC(box, 3) - 1)}

RegionSectionYs(box) == BoxMinC(box, 2)..(BoxMaxC(box, 2) - 1)

DestChunksBefore(layout, sel, point) ==
    LET all == RegionChunks(DestRegion(sel, point))
    IN  CASE layout = "none" -> {}
          [] layout = "all" -> all
          [] layout = "some" -> {c \in all : (c[1] + c[2]) % 2 = 0}

DestSectionsBefore(layout, sel, point) ==
    LET ys == RegionSectionYs(DestRegion(sel, point))
    IN  {<<c[1], cy, c[2]>> : c \in DestChunksBefore(layout, sel, point),
            cy \in IF layout = "some" THEN {y \in ys : y % 2 = 0} ELSE ys}

VoxelsOf(sections) == UNION {SectionVoxels(s[1], s[2], s[3]) : s \in sections}

ColumnsOf(chunks) ==
    UNION {{<<ShiftUp(c[1]) + ix, ShiftUp(c[2]) + iz>> :
              ix \in 0..(SectionSize - 1), iz \in 0..(SectionSize - 1)} : c \in chunks}

\* The destination before the copy, for one layout of its chunks.
DestBefore(layout, sel, point) ==
    LET chunks == DestChunksBefore(layout, sel, point)
        sections == DestSectionsBefore(layout, sel, point)
    IN  [chunks |-> chunks, sections |-> sections,
         Blocks |-> [p \in VoxelsOf(sections) |-> DestBlockBefore(p)],
         Data |-> [p \in VoxelsOf(sections) |-> DestDataBefore(p)],
         Biomes |-> [c \in ColumnsOf(chunks) |-> DestBiomeBefore(c[1], c[2])],
         dirty |-> {},
         Entities |-> <<>>, TileEntities |-> <<>>,
         blocktypes |-> "A"]

\* The generator's local variables before its first step.
FrameAtCall ==
    [i |-> 0, chunkCount |-> 0, copyOffset |-> <<0, 0, 0>>,
     chunkQueue |-> <<>>, sourceCpos |-> <<0, 0>>,
     sectionQueue |-> <<>>, sourceBiomes |-> FALSE,
     sourceBiomeMask |-> {}, allChanged |-> <<>>,
     entitiesCopied |-> 0, tileEntitiesCopied |-> 0,
     entitiesSeen |-> 0, tileEntitiesSeen |-> 0]

\* What the first of two calls left, kept for comparing the second with it.
NoOutcome ==
    [Blocks |-> <<>>, Data |-> <<>>, Biomes |-> <<>>, chunks |-> {}, sections |-> {},
     Entities |-> <<>>, TileEntities |-> <<>>, coords |-> {}]

Init ==
    \E case \in Cases :
        LET sel == case.sel
            allow == case.allow
            mode == case.mode
            src == case.src
            types == case.types
            layout == case.dest.layout
            cr == case.dest.create
            point == VecAdd(sel.box.origin, case.off)
        IN
        /\ call = [sourceSelection |-> sel, destinationPoint |-> point,
                   blocksToCopy |-> allow, entities |-> mode.entities,
                   create |-> cr, biomes |-> mode.biomes,
                   updateLights |-> mode.updateLights, destLayout |-> layout]
        /\ sourceDim = [chunks |-> src.chunks, sections |-> src.sections,
                        hasBiomes |-> src.hasBiomes, blocktypes |-> types]
        /\ destDim = DestBefore(layout, sel, point)
        /\ pc = "start"
        /\ frame = FrameAtCall
        /\ relightCalls = <<>>
        /\ yields = <<>>
        /\ hist = [error |-> NoneVal, writes |-> <<>>, chunksDone |-> 0,
                   inFlight |-> FALSE, calls |-> "one", first |-> NoOutcome]

(***************************************************************************)
(* Slices and array parts (numpy indexing of a section's arrays).          *)
(***************************************************************************)
\* slice(lo, hi) on an axis of SectionSize entries: a negative bound counts
\* from the end, and both are clipped to the axis.
SliceBound(k) ==
    IF k < 0 THEN Max(k + SectionSize, 0) ELSE Min(k, SectionSize)
SliceStart(sl) == SliceBound(sl[1])
SliceLen(sl) == Max(SliceBound(sl[2]) - SliceBound(sl[1]), 0)

\* The shape of array[slices] and its indices.
PartShape(slices) == [k \in 1..3 |-> SliceLen(slices[k])]
PartIndices(shape) ==
    (0..(shape[1] - 1)) \X (0..(shape[2] - 1)) \X (0..(shape[3] - 1))

\* The index in the whole array of index j of array[slices].
WholeIndex(slices, j) ==
    <<SliceStart(slices[1]) + j[1], SliceStart(slices[2]) + j[2],
      SliceStart(slices[3]) + j[3]>>


\* As SlicesOf, without taking the section's base from the bounds.
SlicesOfWorld(box, cx, cy, cz) ==
    << <<BoxMin(box, 2), BoxMax(box, 2)>>,
       <<BoxMin(box, 3), BoxMax(box, 3)>>,
       <<BoxMin(box, 1), BoxMax(box, 1)>> >>

\* The slices (y, z, x) of box in the arrays of section <<cx, cy, cz>>
\* (lines 134-138 and 141-145).
SlicesOf(box, cx, cy, cz) ==
    << <<BoxMin(box, 2) - ShiftUp(cy), BoxMax(box, 2) - ShiftUp(cy)>>,
       <<BoxMin(box, 3) - ShiftUp(cz), BoxMax(box, 3) - ShiftUp(cz)>>,
       <<BoxMin(box, 1) - ShiftUp(cx), BoxMax(box, 1) - ShiftUp(cx)>> >>

(***************************************************************************)
(* The steps of copyBlocksIter on one destination cell (lines 118-193).    *)
(***************************************************************************)
\* copyOffset (line 68)
CopyOffset(destOrigin, sourceOrigin) == VecSub(destOrigin, sourceOrigin)


\* As SourceMask, with the type mask left out.
SourceMaskOfSelection(selectionMask, typeMask) == selectionMask

\* sourceMask = selectionMask & typeMask (line 108)
SourceMask(selectionMask, typeMask) == selectionMask \cap typeMask

\* The destination area of a source section (lines 115-116).
DestBoxOf(sectionBox, copyOffset) ==
    BoundingBox(VecAdd(sectionBox.origin, copyOffset), sectionBox.size)


\* As SkipDestChunk, never passing a chunk over.
SkipDestChunkNever(create, contained) == FALSE

\* Line 119: the destination chunk is passed over.
SkipDestChunk(create, contained) == ~create /\ ~contained


\* As SourceIntersect, with the offset left out.
SourceIntersectUnmoved(intersect, copyOffset) ==
    BoundingBox(intersect.origin, intersect.size)

\* sourceIntersect (line 140)
SourceIntersect(intersect, copyOffset) ==
    BoundingBox(VecSub(intersect.origin, copyOffset), intersect.size)


\* As MaskedWrite, with "+=" for "=".
MaskedWriteAdded(old, new, inMask) == IF inMask THEN old + new ELSE old

\* Lines 164-165: array[destSlices][sourceMaskPart] = converted[sourceMaskPart],
\* seen from one voxel of the destination part.
MaskedWrite(old, new, inMask) == IF inMask THEN new ELSE old

\* changedLight (lines 157-161) for one voxel.
ChangedLight(oldId, newId) ==
    \/ Brightness(oldId) # Brightness(newId)
    \/ Opacity(oldId) # Opacity(newId)

\* Lines 175-182: x, y, z = sourceMaskPart.nonzero() are the indices on the
\* first, second and third axis of the part; intersect's minima are added.
ChangedCoord(j, intersect) ==
    <<j[1] + BoxMin(intersect, 1), j[2] + BoxMin(intersect, 2),
      j[3] + BoxMin(intersect, 3)>>

\* destDim.getChunk(cx, cz, create=True) (line 121)
GetChunkCreate(dim, cpos) ==
    IF cpos \in dim.chunks THEN dim
    ELSE [dim EXCEPT !.chunks = @ \cup {cpos},
                     !.Biomes = @ @@ [c \in ColumnsOf({cpos}) |-> 0]]

\* destChunk.getSection(cy, create=True) (line 130)
GetSectionCreate(dim, spos) ==
    IF spos \in dim.sections THEN dim
    ELSE [dim EXCEPT !.sections = @ \cup {spos},
                     !.Blocks = @ @@ [p \in SectionVoxels(spos[1], spos[2], spos[3]) |-> 0],
                     !.Data = @ @@ [p \in SectionVoxels(spos[1], spos[2], spos[3]) |-> 0]]


\* As MarkDirty, leaving only the chunk written last marked.
MarkDirtyLastOnly(dirty, destCpos) == {destCpos}

\* destChunk.dirty = True (line 193)
MarkDirty(dirty, destCpos) == dirty \cup {destCpos}


\* As Accumulate, keeping the coordinates of the last write only.
AccumulateLast(allChanged, coords) == <<coords>>

\* allChangedX.append(changedX), and so for Y and Z (lines 183-186).
Accumulate(allChanged, coords) == Append(allChanged, coords)


\* As UpdateLightsByCoord, the call left out.
UpdateLightsByCoordNever(calls, coords, written) == calls

\* relight.updateLightsByCoord(destDim, changedX, changedY, changedZ) of
\* line 191: the call is made when `written` destination writes are done.
UpdateLightsByCoord(calls, coords, written) ==
    Append(calls, [coords |-> coords, afterWrite |-> written])

\* One pass of the loop over destCy (lines 124-191).  st is the state the
\* loops thread: the destination, allChanged, the relight calls, the
\* writes so far and the error raised, if any.  ctx holds what the loops
\* over the destination read: the source section, its mask, destBox.
CopyCell(st, ctx, destCpos, destCy) ==
    LET destSectionBox == SectionBox(destCpos[1], destCy, destCpos[2])
        intersect == Intersect(destSectionBox, ctx.destBox)
        spos == <<destCpos[1], destCy, destCpos[2]>>
        dim == GetSectionCreate(st.dest, spos)
        destSlices == SlicesOf(intersect, destCpos[1], destCy, destCpos[2])
        sourceIntersect == SourceIntersect(intersect, ctx.copyOffset)
        sourceSlices ==
            SlicesOf(sourceIntersect, ctx.sourceCpos[1], ctx.sourceCy, ctx.sourceCpos[2])
        shape == PartShape(sourceSlices)
        sourceMaskPart ==
            {j \in PartIndices(shape) : WholeIndex(sourceSlices, j) \in ctx.sourceMask}
        SourcePos(j) ==
            VoxelAt(ctx.sourceCpos[1], ctx.sourceCy, ctx.sourceCpos[2],
                    WholeIndex(sourceSlices, j))
        DestPos(j) ==
            VoxelAt(destCpos[1], destCy, destCpos[2], WholeIndex(destSlices, j))
        Converted(j) ==
            ConvertBlocks(ctx.destTypes, ctx.sourceTypes,
                          SourceBlockAt(SourcePos(j)), SourceDataAt(SourcePos(j)))
        \* the index in the part of position p of the destination section
        PartIndex(p) ==
            <<p[2] - ShiftUp(destCy) - SliceStart(destSlices[1]),
              p[3] - ShiftUp(destCpos[2]) - SliceStart(destSlices[2]),
              p[1] - ShiftUp(destCpos[1]) - SliceStart(destSlices[3])>>
        changedLight ==
            {j \in sourceMaskPart :
                ChangedLight(dim.Blocks[DestPos(j)], Converted(j)[1])}
        coords == {ChangedCoord(j, intersect) : j \in changedLight}
        cell == SectionVoxels(destCpos[1], destCy, destCpos[2])
        written ==
            [dim EXCEPT
                !.Blocks = [p \in cell |->
                    MaskedWrite(@[p], Converted(PartIndex(p))[1],
                                PartIndex(p) \in sourceMaskPart)] @@ @,
                !.Data = [p \in cell |->
                    MaskedWrite(@[p], Converted(PartIndex(p))[2],
                                PartIndex(p) \in sourceMaskPart)] @@ @]
        lights == ctx.updateLights # "no" /\ changedLight # {}
        entry ==
            [source |-> <<ctx.sourceCpos[1], ctx.sourceCy, ctx.sourceCpos[2]>>,
             dest |-> spos,
             sourceSlices |-> sourceSlices,
             destSlices |-> destSlices,
             voxels |-> {DestPos(j) : j \in sourceMaskPart},
             relit |-> {DestPos(j) : j \in changedLight},
             coords |-> IF lights THEN coords ELSE {}]
    IN  IF st.error # NoneVal \/ BoxVolume(intersect) = 0 THEN st
        ELSE IF PartShape(destSlices) # shape
        THEN \* a boolean index of another shape than the array it indexes
             [st EXCEPT !.dest = dim, !.error = "IndexError"]
        ELSE [st EXCEPT
                !.dest = written,
                !.writes = Append(@, entry),
                !.allChanged =
                    IF lights /\ ctx.updateLights = "all" THEN Accumulate(@, coords) ELSE @,
                !.relightCalls =
                    IF lights /\ ctx.updateLights # "all"
                    THEN UpdateLightsByCoord(@, coords, Len(st.writes) + 1)
                    ELSE @]

\* The loop over destCy (line 123).
RECURSIVE CopyToSections(_, _, _, _)
CopyToSections(st, ctx, destCpos, cys) ==
    IF cys = <<>> THEN st
    ELSE CopyToSections(CopyCell(st, ctx, destCpos, Head(cys)), ctx, destCpos, Tail(cys))

\* One pass of the loop over destCpos (lines 119-193).
CopyToChunk(st, ctx, destCpos) ==
    IF st.error # NoneVal \/ SkipDestChunk(ctx.create, destCpos \in st.dest.chunks)
    THEN st
    ELSE LET got == [st EXCEPT !.dest = GetChunkCreate(@, destCpos)]
             done == CopyToSections(got, ctx, destCpos, SectionPositions(ctx.destBox))
         IN  IF done.error # NoneVal THEN done
             ELSE [done EXCEPT !.dest.dirty = MarkDirty(@, destCpos)]


\* As CopyToChunks, going through every destination chunk twice.
RECURSIVE CopyToChunksTwice(_, _, _)
CopyToChunksTwice(st, ctx, cposs) ==
    IF cposs = <<>> THEN st
    ELSE CopyToChunksTwice(
             CopyToChunk(CopyToChunk(st, ctx, Head(cposs)), ctx, Head(cposs)),
             ctx, Tail(cposs))

\* The loop over destCpos (line 118).
RECURSIVE CopyToChunks(_, _, _)
CopyToChunks(st, ctx, cposs) ==
    IF cposs = <<>> THEN st
    ELSE CopyToChunks(CopyToChunk(st, ctx, Head(cposs)), ctx, Tail(cposs))

(***************************************************************************)
(* The generator, step by step.  pc is "start" before the first next(),    *)
(* "yielded" while it is suspended at the yield of line 87, "loop" at the  *)
(* head of the loop over the source chunks, "sections" inside a chunk,     *)
(* "done" once it has returned and "error" once it has raised.  The        *)
(* consumer sees it only at "start", "yielded", "done" and "error".        *)
(***************************************************************************)

\* As Checkpoint, counting the chunks before this one.
CheckpointOfDone(i, chunkCount) == <<i - 1, chunkCount>>

\* The value of the yield (line 87).
Checkpoint(i, chunkCount) == <<i, chunkCount>>

\* Lines 47-77, run by the first next().
Start ==
    /\ pc = "start"
    /\ IF TypeMaskRaises(call.blocksToCopy)
       THEN /\ pc' = "error"
            /\ hist' = [hist EXCEPT !.error = "IndexError"]
            /\ frame' = frame
       ELSE LET destBox == BoundingBox(call.destinationPoint, call.sourceSelection.box.size)
            IN  /\ pc' = "loop"
                /\ frame' = [frame EXCEPT
                       !.chunkCount = ChunkCount(destBox),
                       !.copyOffset = CopyOffset(destBox.origin, call.sourceSelection.box.origin),
                       !.chunkQueue = ChunkPositions(call.sourceSelection.box)]
                /\ hist' = hist
    /\ UNCHANGED <<call, sourceDim, destDim, relightCalls, yields>>

\* Lines 79-87: the next source chunk; one the source lacks is passed over,
\* and for the others the generator yields before it copies anything of it.
NextSourceChunk ==
    /\ pc = "loop"
    /\ frame.chunkQueue # <<>>
    /\ LET sourceCpos == Head(frame.chunkQueue)
       IN  IF sourceCpos \notin sourceDim.chunks
           THEN /\ frame' = [frame EXCEPT !.chunkQueue = Tail(@)]
                /\ UNCHANGED <<pc, yields>>
           ELSE /\ frame' = [frame EXCEPT !.chunkQueue = Tail(@),
                                          !.sourceCpos = sourceCpos,
                                          !.i = @ + 1]
                /\ yields' = Append(yields, Checkpoint(frame.i + 1, frame.chunkCount))
                /\ pc' = "yielded"
    /\ UNCHANGED <<call, sourceDim, destDim, relightCalls, hist>>

\* The consumer asks for the next value: lines 88-97.
Resume ==
    /\ pc = "yielded"
    /\ pc' = "sections"
    /\ LET sourceBiomes == call.biomes /\ sourceDim.hasBiomes
       IN  frame' = [frame EXCEPT
               !.sourceBiomes = sourceBiomes,
               !.sourceBiomeMask = IF sourceBiomes THEN {} ELSE @,
               !.sectionQueue = SourceSectionYs]
    /\ hist' = [hist EXCEPT !.inFlight = TRUE]
    /\ UNCHANGED <<call, sourceDim, destDim, relightCalls, yields>>

\* One pass of the loop over the source sections (lines 97-193).
CopySection ==
    /\ pc = "sections"
    /\ frame.sectionQueue # <<>>
    /\ LET sourceCy == Head(frame.sectionQueue)
           cx == frame.sourceCpos[1]
           cz == frame.sourceCpos[2]
           sel == call.sourceSelection
       IN  IF \/ <<cx, sourceCy, cz>> \notin sourceDim.sections
              \/ SectionMaskIsNone(sel, cx, sourceCy, cz)
           THEN /\ frame' = [frame EXCEPT !.sectionQueue = Tail(@)]
                /\ UNCHANGED <<destDim, relightCalls, hist, pc>>
           ELSE LET sourceMask ==
                        SourceMask(SectionMask(sel, cx, sourceCy, cz),
                                   MakeSourceMask(call.blocksToCopy, cx, sourceCy, cz))
                    destBox == DestBoxOf(SectionBox(cx, sourceCy, cz), frame.copyOffset)
                    ctx == [sourceCpos |-> frame.sourceCpos, sourceCy |-> sourceCy,
                            sourceMask |-> sourceMask, destBox |-> destBox,
                            copyOffset |-> frame.copyOffset, create |-> call.create,
                            updateLights |-> call.updateLights,
                            destTypes |-> destDim.blocktypes,
                            sourceTypes |-> sourceDim.blocktypes]
                IN  \E st \in {CopyToChunks([dest |-> destDim, allChanged |-> frame.allChanged,
                                           relightCalls |-> relightCalls,
                                           writes |-> hist.writes, error |-> NoneVal],
                                          ctx, ChunkPositions(destBox))} :
                    /\ destDim' = st.dest
                    /\ relightCalls' = st.relightCalls
                    /\ hist' = [hist EXCEPT !.writes = st.writes, !.error = st.error]
                    /\ frame' = [frame EXCEPT
                           !.sectionQueue = Tail(@),
                           !.allChanged = st.allChanged,
                           \* sourceBiomeMask |= sourceMask.any(axis=0) (line 112)
                           !.sourceBiomeMask =
                               IF frame.sourceBiomes
                               THEN @ \cup {<<idx[2], idx[3]>> : idx \in sourceMask}
                               ELSE @]
                    /\ pc' = IF st.error # NoneVal THEN "error" ELSE pc
    /\ UNCHANGED <<call, sourceDim, yields>>

\* The entities of a chunk, of those at the positions given.
InChunk(positions, cpos) == SelectSeq(positions, LAMBDA p : ChunkOf(p) = cpos)


\* As CopiesWithOffset, keeping what lies in the selection's bounding box.
CopiesWithOffsetOfBox(positions, sel, copyOffset) ==
    LET kept == SelectSeq(positions, LAMBDA p : InBox(sel.box, p))
    IN  [k \in 1..Len(kept) |-> VecAdd(kept[k], copyOffset)]

\* entity.copyWithOffset(copyOffset) for each entity the selection contains
\* (lines 206-208 and 213-215).
CopiesWithOffset(positions, sel, copyOffset) ==
    LET kept == SelectSeq(positions, LAMBDA p : SelectionContains(sel, p))
    IN  [k \in 1..Len(kept) |-> VecAdd(kept[k], copyOffset)]

\* The entities added for one source chunk (lines 203-209): none unless the
\* entities flag is set.
CopiedEntities(entities, ents, sel, copyOffset) ==
    IF entities THEN CopiesWithOffset(ents, sel, copyOffset) ELSE <<>>


\* As CopiedTileEntities, under the entities flag as the entities are.
CopiedTileEntitiesIfEnabled(entities, tiles, sel, copyOffset) ==
    IF entities THEN CopiesWithOffset(tiles, sel, copyOffset) ELSE <<>>

\* The tile entities added for one source chunk (lines 211-216), whatever
\* the entities flag.
CopiedTileEntities(entities, tiles, sel, copyOffset) ==
    CopiesWithOffset(tiles, sel, copyOffset)

\* Lines 197-200: destDim.setBlocks(wbx, 1, wbz, Biomes=sourceBiomes[bx, bz]),
\* for bx, bz the indices where the mask is set; the chunk's Biomes array is
\* indexed [x, z].  A column of a chunk the destination lacks is passed over.
CopyBiomes(biomesOfDest, mask, sourceCpos) ==
    LET Wbx(b) == b[1] + ShiftUp(sourceCpos[1])
        Wbz(b) == b[2] + ShiftUp(sourceCpos[2])
    IN  [c \in DOMAIN biomesOfDest |->
            IF \E b \in mask : c = <<Wbx(b), Wbz(b)>>
            THEN SourceBiomeAt(c[1], c[2])
            ELSE biomesOfDest[c]]

\* The end of a source chunk: lines 195-216.
FinishChunk ==
    /\ pc = "sections"
    /\ frame.sectionQueue = <<>>
    /\ LET sel == call.sourceSelection
           ents == InChunk(SourceEntityPositions, frame.sourceCpos)
           tiles == InChunk(SourceTileEntityPositions, frame.sourceCpos)
           newEnts == CopiedEntities(call.entities, ents, sel, frame.copyOffset)
           newTiles == CopiedTileEntities(call.entities, tiles, sel, frame.copyOffset)
       IN  /\ destDim' = [destDim EXCEPT
                  !.Biomes = IF frame.sourceBiomes
                             THEN CopyBiomes(@, frame.sourceBiomeMask, frame.sourceCpos)
                             ELSE @,
                  !.Entities = @ \o newEnts,
                  !.TileEntities = @ \o newTiles]
           /\ frame' = [frame EXCEPT
                  !.entitiesSeen = IF call.entities THEN @ + Len(ents) ELSE @,
                  !.entitiesCopied = @ + Len(newEnts),
                  !.tileEntitiesSeen = @ + Len(tiles),
                  !.tileEntitiesCopied = @ + Len(newTiles)]
    /\ pc' = "loop"
    /\ hist' = [hist EXCEPT !.chunksDone = @ + 1, !.inFlight = FALSE]
    /\ UNCHANGED <<call, sourceDim, relightCalls, yields>>


\* As DeferredRelights, stopping one entry short.
DeferredRelightsShort(allChanged, afterWrite) ==
    [k \in 1..(Len(allChanged) - 1) |->
        [coords |-> allChanged[k], afterWrite |-> afterWrite]]

\* The relight calls of lines 229-233, one for each entry of allChanged.
DeferredRelights(allChanged, afterWrite) ==
    [k \in 1..Len(allChanged) |-> [coords |-> allChanged[k], afterWrite |-> afterWrite]]

\* After the last source chunk: lines 218-241.  duration is the difference
\* of two readings of the clock (0 when it did not tick in between, the
\* case line 237 provides for); the arguments of the log call of line 219
\* divide by i and by duration.
Finish ==
    /\ pc = "loop"
    /\ frame.chunkQueue = <<>>
    /\ \E duration \in {0, 1} :
        IF frame.i = 0 \/ duration = 0
        THEN /\ pc' = "error"
             /\ hist' = [hist EXCEPT !.error = "ZeroDivisionError"]
             /\ UNCHANGED relightCalls
        ELSE /\ pc' = "done"
             /\ relightCalls' =
                    IF call.updateLights = "all"
                    THEN relightCalls \o DeferredRelights(frame.allChanged, Len(hist.writes))
                    ELSE relightCalls
             /\ UNCHANGED hist
    /\ UNCHANGED <<call, sourceDim, destDim, frame, yields>>

Next ==
    \/ Start
    \/ NextSourceChunk
    \/ Resume
    \/ CopySection
    \/ FinishChunk
    \/ Finish

Spec == Init /\ [][Next]_vars

(***************************************************************************)
(* Two calls, one after the other.  hist.calls is "one" during the first   *)
(* call, "again" during a second call with the same arguments on the       *)
(* destination the first call left, and "other" during a call in the other *)
(* lighting mode on the destination as it was before the first call.       *)
(***************************************************************************)
Outcome ==
    [Blocks |-> destDim.Blocks, Data |-> destDim.Data, Biomes |-> destDim.Biomes,
     chunks |-> destDim.chunks, sections |-> destDim.sections,
     Entities |-> destDim.Entities, TileEntities |-> destDim.TileEntities,
     coords |-> UNION {relightCalls[k].coords : k \in 1..Len(relightCalls)}]

\* copyBlocksIter is called a second time with the arguments of the first
\* call, after the first call ran to its end.
CallAgain ==
    /\ pc = "done" /\ hist.calls = "one"
    /\ pc' = "start"
    /\ frame' = FrameAtCall
    /\ relightCalls' = <<>>
    /\ yields' = <<>>
    /\ hist' = [error |-> NoneVal, writes |-> <<>>, chunksDone |-> 0,
                inFlight |-> FALSE, calls |-> "again", first |-> Outcome]
    /\ UNCHANGED <<call, sourceDim, destDim>>

\* The same copy is made in the other lighting mode, from the same source
\* to a destination equal to the one the first call started from.
CallOtherMode ==
    /\ pc = "done" /\ hist.calls = "one"
    /\ call.updateLights \in {"yes", "all"}
    /\ call' = [call EXCEPT !.updateLights = IF @ = "yes" THEN "all" ELSE "yes"]
    /\ destDim' = DestBefore(call.destLayout, call.sourceSelection, call.destinationPoint)
    /\ pc' = "start"
    /\ frame' = FrameAtCall
    /\ relightCalls' = <<>>
    /\ yields' = <<>>
    /\ hist' = [error |-> NoneVal, writes |-> <<>>, chunksDone |-> 0,
                inFlight |-> FALSE, calls |-> "other", first |-> Outcome]
    /\ UNCHANGED sourceDim

NextTwice ==
    \/ Next
    \/ CallAgain
    \/ CallOtherMode

SpecTwice == Init /\ [][NextTwice]_vars

(***************************************************************************)
(* What the properties speak of.                                           *)
(***************************************************************************)
Sel == call.sourceSelection

\* destinationPoint - selection origin
Translation == VecSub(call.destinationPoint, Sel.box.origin)

\* The destination before the copy.
ChunksBefore == DestChunksBefore(call.destLayout, Sel, call.destinationPoint)
SectionsBefore == DestSectionsBefore(call.destLayout, Sel, call.destinationPoint)

\* The (id, data) of destination voxel q before the copy; a voxel of a
\* section made by the copy starts as air.
VoxelBefore(q) ==
    IF SectionOf(q) \in SectionsBefore
    THEN <<DestBlockBefore(q), DestDataBefore(q)>>
    ELSE <<0, 0>>

VoxelNow(q) == <<destDim.Blocks[q], destDim.Data[q]>>

\* The source holds a voxel at p.
SourceHolds(p) == ChunkOf(p) \in sourceDim.chunks /\ SectionOf(p) \in sourceDim.sections

\* The converted (id, data) of the source voxel at p.
ConvertedSource(p) ==
    ConvertBlocks(destDim.blocktypes, sourceDim.blocktypes,
                  SourceBlockAt(p), SourceDataAt(p))

\* The source chunks the selection covers, and those of them the source holds.
CoveredChunks == {ChunkPositions(Sel.box)[k] : k \in 1..ChunkCount(Sel.box)}
PresentChunks == CoveredChunks \cap sourceDim.chunks

\* The destination chunks the translated selection reaches.
ReachedChunks ==
    RegionChunks(BoundingBox(call.destinationPoint, Sel.box.size))

Writes == {hist.writes[k] : k \in 1..Len(hist.writes)}
Calls == {relightCalls[k] : k \in 1..Len(relightCalls)}

ValidList == ~TypeMaskRaises(call.blocksToCopy)

(***************************************************************************)
(* The properties.                                                         *)
(***************************************************************************)

\* C1: after a copy without a block list that ran to its end, a destination
\* voxel q = p + (destinationPoint - selection origin), for p a voxel the
\* source holds inside the selection's shape, holds the converted id and
\* data of the source voxel at p; every other destination voxel holds what
\* it held before; and the voxel q exists whenever creation is on or its
\* chunk was there before.
C1_CopiedInsideUnchangedOutside ==
    (pc = "done" /\ ~call.blocksToCopy.given) =>
        /\ \A q \in DOMAIN destDim.Blocks :
              LET p == VecSub(q, Translation)
              IN  IF SourceHolds(p) /\ SelectionContains(Sel, p)
                  THEN VoxelNow(q) = ConvertedSource(p)
                  ELSE VoxelNow(q) = VoxelBefore(q)
        /\ \A s \in sourceDim.sections : \A p \in SectionVoxels(s[1], s[2], s[3]) :
              LET q == VecAdd(p, Translation)
              IN  (/\ SelectionContains(Sel, p)
                   /\ <<s[1], s[3]>> \in sourceDim.chunks
                   /\ (call.create \/ ChunkOf(q) \in ChunksBefore))
                  => q \in DOMAIN destDim.Blocks
        /\ VoxelsOf(SectionsBefore) \subseteq DOMAIN destDim.Blocks

\* C1, reached: a finished copy of the sparse selection between different
\* registries, moved off the grid on every axis, with creation off and
\* some destination chunks missing, that changed a voxel and left another
\* voxel inside the bounding box as it was.
C1_Witness ==
    /\ pc = "done" /\ ~call.blocksToCopy.given
    /\ Sel.shape = "sparse" /\ Translation = <<0 - 1, 1, 1>>
    /\ sourceDim.blocktypes # destDim.blocktypes
    /\ ~call.create /\ call.destLayout = "some"
    /\ \E q \in DOMAIN destDim.Blocks : VoxelNow(q) # VoxelBefore(q)
    /\ \E q \in DOMAIN destDim.Blocks :
          /\ InBox(Sel.box, VecSub(q, Translation))
          /\ ~SelectionContains(Sel, VecSub(q, Translation))
          /\ VoxelNow(q) = VoxelBefore(q)
          /\ VoxelNow(q) # ConvertedSource(VecSub(q, Translation))

\* The checkpoint the consumer received last.
LastYield == yields[Len(yields)]

\* C2 as stated: while the generator is suspended at checkpoint (k, total),
\* k source chunks have been copied in full.
C2_CheckpointAfterChunk ==
    pc = "yielded" => hist.chunksDone = LastYield[1]

\* C2, amended: while the generator is suspended at checkpoint (k, total),
\* exactly k - 1 source chunks have been copied in full and nothing of the
\* k-th has been written; the generator is never suspended inside a chunk.
C2_CheckpointBeforeChunk ==
    /\ pc \in {"start", "yielded", "done"} => ~hist.inFlight
    /\ pc = "yielded" =>
          /\ hist.chunksDone = LastYield[1] - 1
          /\ \A w \in Writes : <<w.source[1], w.source[3]>> # frame.sourceCpos
    /\ pc = "done" => hist.chunksDone = Len(yields)

\* C2, reached: suspended at the second checkpoint, with writes of the
\* first chunk done.
C2_Witness ==
    /\ pc = "yielded" /\ LastYield[1] = 2
    /\ hist.chunksDone = 1 /\ hist.writes # <<>>

\* C3 as stated: in batched mode a finished copy has called the relighting
\* exactly once, after the last write, with the deltas of all writes.
C3_OneRelightCall ==
    (pc = "done" /\ call.updateLights = "all") =>
        /\ Len(relightCalls) = 1
        /\ relightCalls[1].afterWrite = Len(hist.writes)
        /\ relightCalls[1].coords = UNION {w.coords : w \in Writes}

\* C3, amended: in batched mode no relight call is made before the copy has
\* finished; a finished copy has made one call for each write whose deltas
\* are not empty, in the order of the writes, each after the last write
\* and with the deltas of its write, so that the coordinates of all calls
\* are the deltas of all writes.
C3_RelightCallsDeferred ==
    call.updateLights = "all" =>
        /\ pc # "done" => relightCalls = <<>>
        /\ pc = "done" =>
              LET lit == SelectSeq(hist.writes, LAMBDA w : w.coords # {})
              IN  /\ Len(relightCalls) = Len(lit)
                  /\ \A k \in 1..Len(lit) :
                        /\ relightCalls[k].coords = lit[k].coords
                        /\ relightCalls[k].afterWrite = Len(hist.writes)
                  /\ UNION {c.coords : c \in Calls} = UNION {w.coords : w \in Writes}

\* C3, reached: a finished batched copy with several relight calls.
C3_Witness ==
    /\ pc = "done" /\ call.updateLights = "all"
    /\ Len(relightCalls) >= 2
    /\ Len(hist.writes) > Len(relightCalls)

\* C4: every destination chunk in which the copy has written a voxel is
\* marked dirty, at every step of the copy.
C4_WrittenChunksDirty ==
    \A w \in Writes :
        w.voxels # {} => <<w.dest[1], w.dest[3]>> \in destDim.dirty

\* C4, reached: one source section written in part to two destination
\* chunks, both marked.
C4_Witness ==
    \E w1 \in Writes, w2 \in Writes :
        /\ w1.source = w2.source
        /\ <<w1.dest[1], w1.dest[3]>> # <<w2.dest[1], w2.dest[3]>>
        /\ w1.voxels # {} /\ w2.voxels # {}
        /\ Cardinality(w1.voxels) < SectionSize * SectionSize * SectionSize
        /\ {<<w1.dest[1], w1.dest[3]>>, <<w2.dest[1], w2.dest[3]>>} \subseteq destDim.dirty

\* C5 as stated: with creation off the copy makes neither a destination
\* chunk nor a destination section.
C5_NothingCreated ==
    ~call.create =>
        /\ destDim.chunks = ChunksBefore
        /\ destDim.sections = SectionsBefore

\* C5, amended: with creation off the copy makes no destination chunk; the
\* sections it makes all lie in chunks that were there before.
C5_NoChunkCreated ==
    ~call.create =>
        /\ destDim.chunks = ChunksBefore
        /\ \A s \in destDim.sections \ SectionsBefore : <<s[1], s[3]>> \in ChunksBefore

\* C5, reached: a finished copy with creation off that reached a missing
\* chunk, wrote to a chunk that was there and made a section in it.
C5_Witness ==
    /\ pc = "done" /\ ~call.create
    /\ ReachedChunks \ ChunksBefore # {}
    /\ destDim.sections # SectionsBefore
    /\ \E w \in Writes : w.voxels # {}

\* C6 as stated: with creation off and a destination chunk the copy reaches
\* missing, the copy raises no error.
C6_MissingDestinationNoError ==
    (~call.create /\ ValidList /\ ReachedChunks \ ChunksBefore # {}) => pc # "error"

\* C7 as stated: with source chunks the selection covers missing, the copy
\* yields no checkpoint and writes nothing for them, and raises no error.
C7_MissingSourceNoError ==
    (ValidList /\ CoveredChunks \ sourceDim.chunks # {}) =>
        /\ pc # "error"
        /\ Len(yields) <= Cardinality(PresentChunks)
        /\ \A w \in Writes : <<w.source[1], w.source[3]>> \in sourceDim.chunks

\* The columns <<x, z>> of source chunk c with a true bit in the combined
\* mask of one of its sections.
MaskedColumns(c) ==
    UNION { {<<ShiftUp(c[1]) + idx[3], ShiftUp(c[2]) + idx[2]>> :
                idx \in SourceMask(SectionMask(Sel, c[1], cy, c[2]),
                                   MakeSourceMask(call.blocksToCopy, c[1], cy, c[2]))} :
            cy \in {y \in {SourceSectionYs[k] : k \in 1..Len(SourceSectionYs)} :
                        /\ <<c[1], y, c[2]>> \in sourceDim.sections
                        /\ ~SectionMaskIsNone(Sel, c[1], y, c[2])} }

\* C8 as stated: with biome copy on, once the source chunks are done, the
\* destination biome at the translated column of every masked column of a
\* source chunk with biomes is the source biome of the column.
C8_BiomesAtTranslatedColumn ==
    (pc = "done" /\ call.biomes /\ sourceDim.hasBiomes) =>
        \A c \in PresentChunks : \A col \in MaskedColumns(c) :
            LET to == <<col[1] + Translation[1], col[2] + Translation[3]>>
            IN  to \in DOMAIN destDim.Biomes =>
                    destDim.Biomes[to] = SourceBiomeAt(col[1], col[2])

\* C9 as stated: with lighting on, the coordinates handed to the relighting
\* over a finished copy are the positions of the destination voxels written
\* whose brightness or opacity the write changed.
C9_RelitWhereLightChanged ==
    (pc = "done" /\ call.updateLights # "no") =>
        UNION {c.coords : c \in Calls} = UNION {w.relit : w \in Writes}

\* C10: with a block list that is not empty, a destination voxel differs
\* from what it held before only if the source voxel it corresponds to is
\* held by the source, inside the selection and of an id of the list.
C10_OnlyListedBlocksChange ==
    (call.blocksToCopy.given /\ call.blocksToCopy.ids # {}) =>
        \A q \in DOMAIN destDim.Blocks :
            VoxelNow(q) # VoxelBefore(q) =>
                LET p == VecSub(q, Translation)
                IN  /\ SourceHolds(p)
                    /\ SelectionContains(Sel, p)
                    /\ SourceBlockAt(p) \in call.blocksToCopy.ids

\* C10, reached: a finished copy with a block list that changed a voxel and,
\* in the same destination section, left a voxel of the selection whose id
\* is not listed as it was, though the copy without the list would have
\* changed it.
C10_Witness ==
    /\ pc = "done" /\ call.blocksToCopy.given /\ call.blocksToCopy.ids # {}
    /\ \E q1 \in DOMAIN destDim.Blocks, q2 \in DOMAIN destDim.Blocks :
          /\ SectionOf(q1) = SectionOf(q2)
          /\ VoxelNow(q1) # VoxelBefore(q1)
          /\ SelectionContains(Sel, VecSub(q2, Translation))
          /\ SourceHolds(VecSub(q2, Translation))
          /\ SourceBlockAt(VecSub(q2, Translation)) \notin call.blocksToCopy.ids
          /\ VoxelNow(q2) = VoxelBefore(q2)
          /\ VoxelNow(q2) # ConvertedSource(VecSub(q2, Translation))

\* The source chunks the copy has gone through to their end, in the order
\* of the loop of line 79.
PresentSeq == SelectSeq(ChunkPositions(Sel.box), LAMBDA c : c \in sourceDim.chunks)
Processed == {PresentSeq[k] : k \in 1..hist.chunksDone}

\* The positions of seq that lie in a processed source chunk.
InProcessed(seq) == {seq[k] : k \in {n \in 1..Len(seq) : ChunkOf(seq[n]) \in Processed}}

Inserted(seq) == {seq[k] : k \in 1..Len(seq)}

LitWrites ==
    SelectSeq([k \in 1..Len(hist.writes) |-> k], LAMBDA k : hist.writes[k].coords # {})

\* C14: in per-write lighting mode, in every state between two steps of the
\* copy, the relight calls made are one for each write done whose deltas are
\* not empty, in the order of the writes, each made when its write was the
\* last write done and with the deltas of that write alone: no deltas of a
\* write done wait for a later call.
C14_RelitRightAfterWrite ==
    call.updateLights = "yes" =>
        /\ Len(relightCalls) = Len(LitWrites)
        /\ \A k \in 1..Len(LitWrites) :
              /\ relightCalls[k].afterWrite = LitWrites[k]
              /\ relightCalls[k].coords = hist.writes[LitWrites[k]].coords

\* C14, reached: in per-write mode, inside a source chunk, two relight calls
\* already made after different writes, with a write without deltas done
\* between or after them.
C14_Witness ==
    /\ call.updateLights = "yes" /\ pc = "sections"
    /\ Len(relightCalls) >= 2
    /\ relightCalls[1].afterWrite < relightCalls[2].afterWrite
    /\ relightCalls[1].coords # relightCalls[2].coords
    /\ Len(hist.writes) > Len(relightCalls)

\* C13: a copy that ran to its end in one lighting mode and the same copy,
\* from the same source to an equal destination, that ran to its end in the
\* other lighting mode have handed the relighting the same set of
\* coordinates over all their calls and leave equal block and data arrays.
C13_ModesAgree ==
    (pc = "done" /\ hist.calls = "other") =>
        /\ Outcome.coords = hist.first.coords
        /\ destDim.Blocks = hist.first.Blocks
        /\ destDim.Data = hist.first.Data

\* C13, reached: the two copies done, with coordinates handed to the
\* relighting in several calls and blocks changed.
C13_Witness ==
    /\ pc = "done" /\ hist.calls = "other"
    /\ Len(relightCalls) >= 2
    /\ Cardinality(Outcome.coords) >= 3
    /\ \E q \in DOMAIN destDim.Blocks : VoxelNow(q) # VoxelBefore(q)

\* C15: with creation on, a second copy with the arguments of the first,
\* run to its end on the destination the first left, leaves the blocks, the
\* data and the biomes, and the chunks and sections there are, as the first
\* left them; the entities and tile entities of the first are added again.
C15_SecondCopyChangesNothing ==
    (pc = "done" /\ hist.calls = "again" /\ call.create) =>
        /\ destDim.Blocks = hist.first.Blocks
        /\ destDim.Data = hist.first.Data
        /\ destDim.Biomes = hist.first.Biomes
        /\ destDim.chunks = hist.first.chunks
        /\ destDim.sections = hist.first.sections
        /\ destDim.Entities = hist.first.Entities \o hist.first.Entities
        /\ destDim.TileEntities = hist.first.TileEntities \o hist.first.TileEntities

\* C15, reached: a second copy done with creation on, where the first copy
\* made a chunk, changed blocks and biomes and added an entity.
C15_Witness ==
    /\ pc = "done" /\ hist.calls = "again" /\ call.create
    /\ hist.first.chunks # ChunksBefore
    /\ \E q \in DOMAIN destDim.Blocks : VoxelNow(q) # VoxelBefore(q)
    /\ \E c \in DOMAIN destDim.Biomes : destDim.Biomes[c] # 0
    /\ hist.first.Entities # <<>>
    /\ hist.writes # <<>>

\* C16: for every destination cell written, on each of the three axes the
\* source slice and the destination slice have the same extent, and both
\* start at 0 or above, stop at the section edge or below and are not
\* empty; no write fails for slices of different shapes.
C16_SliceRangesAgree ==
    /\ ValidList => hist.error # "IndexError"
    /\ \A w \in Writes : \A a \in 1..3 :
          LET s == w.sourceSlices[a]
              d == w.destSlices[a]
          IN  /\ s[2] - s[1] = d[2] - d[1]
              /\ 0 <= s[1] /\ s[1] < s[2] /\ s[2] <= SectionSize
              /\ 0 <= d[1] /\ d[1] < d[2] /\ d[2] <= SectionSize

\* C16, reached: with the copy moved down on one axis and up on the others,
\* off the grid, a source section written to two destination cells, one
\* write with slices that differ between source and destination and
\* cover a part of the section only.
C16_Witness ==
    /\ Translation = <<0 - 1, 1, 1>>
    /\ \E w1 \in Writes, w2 \in Writes :
          /\ w1.source = w2.source /\ w1.dest # w2.dest
          /\ \A a \in 1..3 : w1.sourceSlices[a] # w1.destSlices[a]
          /\ \E a \in 1..3 : w1.sourceSlices[a][2] - w1.sourceSlices[a][1] < SectionSize
          /\ \E a \in 1..3 : w2.destSlices[a][1] > 0

\* The array indices a triple of slices covers.
SliceCells(slices) ==
    {idx \in SectionIndices :
        \A a \in 1..3 : slices[a][1] <= idx[a] /\ idx[a] < slices[a][2]}

\* The destination voxels and the source voxels the slices of the k-th
\* write cover.
DestCells(k) ==
    LET w == hist.writes[k]
    IN  {VoxelAt(w.dest[1], w.dest[2], w.dest[3], idx) : idx \in SliceCells(w.destSlices)}
SourceCells(k) ==
    LET w == hist.writes[k]
    IN  {VoxelAt(w.source[1], w.source[2], w.source[3], idx) :
            idx \in SliceCells(w.sourceSlices)}

\* The writes made from source section s.
WritesFrom(s) == {k \in 1..Len(hist.writes) : hist.writes[k].source = s}

\* The source sections a copy that ran to its end has gone through.
CopiedSections ==
    {s \in sourceDim.sections :
        /\ <<s[1], s[3]>> \in PresentChunks
        /\ s[2] \in {SourceSectionYs[k] : k \in 1..Len(SourceSectionYs)}
        /\ ~SectionMaskIsNone(Sel, s[1], s[2], s[3])}

\* The voxels of source section s in the combined mask.
Selected(s) ==
    {VoxelAt(s[1], s[2], s[3], idx) :
        idx \in SourceMask(SectionMask(Sel, s[1], s[2], s[3]),
                           MakeSourceMask(call.blocksToCopy, s[1], s[2], s[3]))}

\* The chunk of destination voxel q is not passed over: creation is on or
\* the chunk was there before the copy.
Kept(q) == call.create \/ ChunkOf(q) \in ChunksBefore

\* The writes of one source section do not overlap, on the destination side
\* and on the source side, and no destination voxel is written twice.
NoOverlap ==
    \A k1 \in 1..Len(hist.writes), k2 \in 1..Len(hist.writes) :
        k1 # k2 =>
            /\ hist.writes[k1].voxels \cap hist.writes[k2].voxels = {}
            /\ hist.writes[k1].source = hist.writes[k2].source =>
                  /\ DestCells(k1) \cap DestCells(k2) = {}
                  /\ SourceCells(k1) \cap SourceCells(k2) = {}

\* C17 as stated: the writes of one source section do not overlap, their
\* destination sides make up the whole translated section and their source
\* sides the whole section; every selected source voxel is written to one
\* destination voxel and no destination voxel is written twice.
C17_SectionSplitExactly ==
    /\ NoOverlap
    /\ pc = "done" =>
          \A s \in CopiedSections :
              /\ UNION {DestCells(k) : k \in WritesFrom(s)} =
                    {VecAdd(p, Translation) : p \in SectionVoxels(s[1], s[2], s[3])}
              /\ UNION {SourceCells(k) : k \in WritesFrom(s)} =
                    SectionVoxels(s[1], s[2], s[3])
              /\ \A p \in Selected(s) :
                    Cardinality({k \in 1..Len(hist.writes) :
                        VecAdd(p, Translation) \in hist.writes[k].voxels}) = 1

\* C17, amended: the writes of one source section do not overlap; their
\* destination sides make up the part of the translated section that lies
\* in destination chunks not passed over, and their source sides the part
\* of the section that is moved there; a selected source voxel is written
\* to one destination voxel when the chunk of its translated position is
\* not passed over and to none when it is; no destination voxel is written
\* twice.
C17_SectionSplitWhereKept ==
    /\ NoOverlap
    /\ pc = "done" =>
          \A s \in CopiedSections :
              /\ UNION {DestCells(k) : k \in WritesFrom(s)} =
                    {q \in {VecAdd(p, Translation) : p \in SectionVoxels(s[1], s[2], s[3])} :
                        Kept(q)}
              /\ UNION {SourceCells(k) : k \in WritesFrom(s)} =
                    {p \in SectionVoxels(s[1], s[2], s[3]) : Kept(VecAdd(p, Translation))}
              /\ \A p \in Selected(s) :
                    Cardinality({k \in 1..Len(hist.writes) :
                        VecAdd(p, Translation) \in hist.writes[k].voxels}) =
                    IF Kept(VecAdd(p, Translation)) THEN 1 ELSE 0

\* C17, reached: a finished copy moved off the grid with creation off, a
\* source section written to two destination cells and in part moved to a
\* destination chunk that is missing, with a selected voxel written and a
\* selected voxel not written.
C17_Witness ==
    /\ pc = "done" /\ ~call.create
    /\ \E s \in CopiedSections :
          /\ Cardinality(WritesFrom(s)) >= 2
          /\ \E p \in Selected(s) : Kept(VecAdd(p, Translation))
          /\ \E p \in Selected(s) : ~Kept(VecAdd(p, Translation))

\* C18 as stated: a copy with a block list holding an id at or above the
\* id limit raises no error, changes destination voxels only from source
\* voxels of the listed ids, and comes to its end when asked on.
C18_UnknownIdNoError ==
    (call.blocksToCopy.given /\ \E id \in call.blocksToCopy.ids : id >= IdLimit) =>
        /\ hist.error # "IndexError"
        /\ \A q \in DOMAIN destDim.Blocks :
              VoxelNow(q) # VoxelBefore(q) =>
                  SourceBlockAt(VecSub(q, Translation)) \in call.blocksToCopy.ids

\* C19 as stated: the checkpoints (done, total) of a copy have one total,
\* done counts 1, 2, 3, ... and never exceeds total, and the last checkpoint
\* of a copy that ran to its end with every source chunk the selection
\* covers present has done = total.
C19_CheckpointsCountToTotal ==
    /\ \A k \in 1..Len(yields) :
          /\ yields[k][1] = k
          /\ yields[k][2] = yields[1][2]
          /\ yields[k][1] <= yields[k][2]
    /\ (pc = "done" /\ CoveredChunks \subseteq sourceDim.chunks) =>
          /\ yields # <<>>
          /\ LastYield[1] = LastYield[2]

====
